---- MODULE Spec2Model ----
(***************************************************************************)
(* State-machine model of src/workflow.py: a Streamlit script that is      *)
(* re-executed from the top on every widget event.  One script run is a    *)
(* sequence of steps (pc); between runs the page is idle and the user may  *)
(* edit the title box, click a button or pick a radio option.              *)
(*                                                                         *)
(* Python strings that the code trims, upper-cases or compares are         *)
(* sequences of one-character strings; Python dicts are functions whose    *)
(* DOMAIN is the set of keys present; list indices are 0-based in          *)
(* session_state.user_answers (as in the code) and 1-based in sequences.   *)
(***************************************************************************)
EXTENDS Integers, Sequences, FiniteSets, TLC

VARIABLES
    pc,             \* position of the script run, or how the last run ended
    trigger,        \* the widget event that caused the current run
    movie_input,    \* the text box of line 130
    session_state,  \* st.session_state: holds "user_answers" once line 221 ran
    radio,          \* the radio selections made by the user (line 235)
    submitted,      \* history: Submit Quiz has been clicked (the code keeps no such flag)
    info,           \* locals of the run: info, source (line 141)
    source,
    raw_quiz,       \* raw_quiz (line 198)
    quiz_json_str,  \* quiz_json_str (line 206)
    questions,      \* questions (line 209)
    i,              \* the loop index of line 223
    llm_calls,      \* the prompts sent to llama in this run, in order
    ui              \* what this run has put on the page

vars == <<pc, trigger, movie_input, session_state, radio, submitted,
          info, source, raw_quiz, quiz_json_str, questions, i, llm_calls, ui>>

\* ------------------------------------------------------------------ bounds
\* Longest questions list of full variety the model reply may carry (lists of
\* ExpectedQuestions well-formed questions are modelled besides).
MaxQ == 1
\* Longest model reply, in tokens, around the JSON object.
MaxRaw == 3
\* The prompt asks for exactly 5 questions; line 210 warns on any other count.
ExpectedQuestions == 5
\* Longest quiz handed to the grading pass on its own.
MaxGradeQ == 2

\* ------------------------------------------------------- Python primitives
EmptyDict == [k \in {} |-> {}]

\* dict.get(key, default)
Get(d, key, default) == IF key \in DOMAIN d THEN d[key] ELSE default

Range(s) == {s[k] : k \in DOMAIN s}

IsSpace(c) == c = " "

LowerToUpper == [c \in {"a", "b", "c", "d", "e"} |->
                   CASE c = "a" -> "A" [] c = "b" -> "B" [] c = "c" -> "C"
                     [] c = "d" -> "D" [] c = "e" -> "E"]

\* str.upper(), one character
UpperChar(c) == IF c \in DOMAIN LowerToUpper THEN LowerToUpper[c] ELSE c

\* str.upper()
Upper(s) == [k \in 1..Len(s) |-> UpperChar(s[k])]

RECURSIVE LStrip(_)
LStrip(s) == IF s # <<>> /\ IsSpace(Head(s)) THEN LStrip(Tail(s)) ELSE s

RECURSIVE RStrip(_)
RStrip(s) == IF s # <<>> /\ IsSpace(s[Len(s)])
             THEN RStrip(SubSeq(s, 1, Len(s) - 1)) ELSE s

\* str.strip()
Strip(s) == RStrip(LStrip(s))

\* ------------------------------------------------------------ quiz helpers
\* labels = ["A", "B", "C", "D"]  (line 232)
labels == << <<"A">>, <<"B">>, <<"C">>, <<"D">> >>

Placeholder == "N/A"

\* Mutant of PadChoices: the placeholder is inserted in front.
RECURSIVE PadChoicesFront(_)
PadChoicesFront(choices) ==
    IF Len(choices) < 4 THEN PadChoicesFront(<<Placeholder>> \o choices) ELSE choices

\* while len(choices) < 4: choices.append("N/A")  (lines 229-230)
RECURSIVE PadChoices(_)
PadChoices(choices) ==
    IF Len(choices) < 4 THEN PadChoices(Append(choices, Placeholder)) ELSE choices

\* display_options = [f"{labels[idx]}) {choices[idx]}" for idx in range(4)]
\* The formatted string "L) text" is the pair <<L, text>>.
DisplayOptions(choices) ==
    [idx \in 1..4 |-> <<labels[idx], PadChoices(choices)[idx]>>]

\* A JSON value carries its type: an element of the questions list is an
\* object (a dict, with its fields) or something else (a string here).
JsonObject(fields) == [type |-> "object", fields |-> fields]
JsonString == [type |-> "string", fields |-> EmptyDict]

\* q.get(key, default): only a dict has the method.
HasGet(q) == q.type = "object"
QGet(q, key, default) == Get(q.fields, key, default)

\* q_text = q.get("question", f"Question {i+1}")  (line 224); k is 0-based.
\* A question text is a sequence, so the default and a given text compare.
QuestionText(q, k) == QGet(q, "question", <<"Question", k + 1>>)

\* correct = q.get("answer", "").strip().upper()  (line 243)
CorrectLabel(q) == Upper(Strip(QGet(q, "answer", <<>>)))

\* user_ans = st.session_state.user_answers.get(i, "")  (line 244); k is 0-based.
UserAnswer(answers, k) == Get(answers, k, <<>>)

\* The grading loop of lines 240-252: the score after questions k+1..Len(qs)
\* have been graded, starting from score acc (k is the 0-based loop index).
RECURSIVE GradeLoop(_, _, _, _)
GradeLoop(qs, answers, k, acc) ==
    IF k >= Len(qs) THEN acc
    ELSE GradeLoop(qs, answers, k + 1,
                   IF UserAnswer(answers, k) = CorrectLabel(qs[k + 1])
                   THEN acc + 1 ELSE acc)

\* total = len(questions); score as accumulated  (lines 239-253)
Grade(qs, answers) == <<GradeLoop(qs, answers, 0, 0), Len(qs)>>

\* --------------------------------------------------------------- OMDb lookup
\* What omdb_get_by_title can return (lines 36-47): a full record, OMDb's own
\* Response "False" answers, or the dict substituted for an unparsable body.
ExactResponses ==
    { [Response |-> "True", Title |-> "T", Plot |-> "P"],
      [Response |-> "False", Error |-> "Movie not found!"],
      [Response |-> "False", Error |-> "Invalid API key!"],
      [Response |-> "False", Error |-> "Invalid OMDb response"] }

\* What omdb_search can return (lines 50-61): a list of search items, which
\* carry no "Response" key; [] for no hit, a failed or an unparsable reply.
SearchResults ==
    { <<>>,
      << [Title |-> "S", imdbID |-> "tt1"] >>,
      << [Title |-> "S"] >> }

\* The by-id request of lines 81-85: resp.json() raises, or yields a dict.
IdResponses ==
    { [raised |-> TRUE, data |-> EmptyDict],
      [raised |-> FALSE, data |-> [Response |-> "True", Title |-> "I", Plot |-> "P"]],
      [raised |-> FALSE, data |-> [Response |-> "False", Error |-> "Incorrect IMDb ID."]] }

Truthy(v) == v # ""

\* fetch_movie_data_with_fallback (lines 64-94): exact is the reply of the
\* exact-title request, results the search reply, idresp the by-id reply.
\* searched / fetched_id record which requests were issued.
fetch_movie_data_with_fallback(title, exact, results, idresp) ==
    IF Get(exact, "Response", "") = "True"
    THEN [info |-> exact, used_title |-> Get(exact, "Title", title),
          source |-> "exact", searched |-> FALSE, fetched_id |-> FALSE]
    ELSE IF results # <<>>
    THEN LET first == results[1]
             imdb_id == Get(first, "imdbID", "")
         IN IF Truthy(imdb_id) /\ ~idresp.raised
               /\ Get(idresp.data, "Response", "") = "True"
            THEN [info |-> idresp.data,
                  used_title |-> Get(idresp.data, "Title", Get(first, "Title", "")),
                  source |-> "search", searched |-> TRUE, fetched_id |-> TRUE]
            ELSE [info |-> first, used_title |-> Get(first, "Title", title),
                  source |-> "search_partial", searched |-> TRUE,
                  fetched_id |-> Truthy(imdb_id)]
    ELSE [info |-> [Response |-> "False", Error |-> "Not found"],
          used_title |-> title, source |-> "none",
          searched |-> TRUE, fetched_id |-> FALSE]

\* "Invalid API key" in err or "Invalid API Key" in err or "Invalid key" in err
InvalidKeyError(err) == err \in {"Invalid API key!", "Invalid API Key!", "Invalid key"}

\* Mutant of LookupFailed: the flag is compared in the wrong case.
LookupFailedLowercase(inf) == Get(inf, "Response", "") = "false"

\* info.get("Response") == "False"  (line 142)
LookupFailed(inf) == Get(inf, "Response", "") = "False"

\* ------------------------------------------------------------ model replies
\* A reply is a sequence of tokens: "t" is prose, "{" and "}" the braces of a
\* top-level JSON object whose content is the reply's payload.
Tokens == {"t", "{", "}"}

Texts == UNION {[1..n -> Tokens] : n \in 0..MaxRaw}

FirstOpen(text) ==
    IF \E k \in 1..Len(text) : text[k] = "{"
    THEN CHOOSE k \in 1..Len(text) :
            text[k] = "{" /\ \A j \in 1..(k - 1) : text[j] # "{"
    ELSE 0

LastClose(text) ==
    IF \E k \in 1..Len(text) : text[k] = "}"
    THEN CHOOSE k \in 1..Len(text) :
            text[k] = "}" /\ \A j \in (k + 1)..Len(text) : text[j] # "}"
    ELSE 0

\* m = re.search(r"\{.*\}", raw_quiz, re.DOTALL)  (line 201): is there a match
HasSpan(text) == FirstOpen(text) > 0 /\ FirstOpen(text) < LastClose(text)

\* m.group(0): greedy, from the first "{" to the last "}"
Span(text) == SubSeq(text, FirstOpen(text), LastClose(text))

\* Mutant of ValidJson: whatever opens with a brace is taken as an object.
ValidJsonLenient(span) == span # <<>> /\ Head(span) = "{"

\* json.loads succeeds on the span iff it is one object and nothing else.
ValidJson(span) == span = <<"{", "}">>

Opt(key, vals) == {EmptyDict} \cup {key :> v : v \in vals}

\* Short choice lists; FullObjs carries the list of four.
ChoiceLists == { <<>>, <<"c1", "c2">> }

AnswerTexts == { <<"A">>, <<" ", "b">>, <<"E">> }

\* An element of the reply's questions list: an object, any of whose fields
\* may be missing, or a value that is no object.
QuestionObjs ==
    { JsonObject(a @@ b @@ c) : a \in Opt("question", {<<"q">>}),
                                b \in Opt("choices", ChoiceLists),
                                c \in Opt("answer", AnswerTexts) }
      \cup {JsonString}

\* Question objects as the prompt of lines 192-197 asks for them, and one
\* that lacks its answer.
FullObjs ==
    { JsonObject([question |-> <<"q">>, choices |-> <<"c1", "c2", "c3", "c4">>] @@ c) :
        c \in Opt("answer", { <<"A">> }) }

QuizLists ==
    UNION {[1..n -> QuestionObjs] : n \in 0..MaxQ}
      \cup [1..ExpectedQuestions -> FullObjs]

\* JSON values the "questions" key may hold: null (not iterable), the empty
\* object {} (no list, but iterable: the loop body never runs), or a list.
JsonNull == [type |-> "null", items |-> <<>>]
JsonEmptyObject == [type |-> "object", items |-> <<>>]
JsonList(items) == [type |-> "list", items |-> items]

\* enumerate(questions) does not raise.
Iterable(qs) == qs.type \in {"list", "object"}

\* quiz_data: the object json.loads returns.
Payloads ==
    {EmptyDict} \cup {"questions" :> JsonNull} \cup {"questions" :> JsonEmptyObject}
      \cup {"questions" :> JsonList(l) : l \in QuizLists}

\* The replies of the quiz call: the text, and the object inside its braces
\* when the span is one.
Replies ==
    { [received |-> TRUE, text |-> t, payload |-> p] :
        t \in {x \in Texts : HasSpan(x) /\ ValidJson(Span(x))}, p \in Payloads }
      \cup { [received |-> TRUE, text |-> t, payload |-> EmptyDict] :
        t \in {x \in Texts : ~(HasSpan(x) /\ ValidJson(Span(x)))} }

\* questions = quiz_data.get("questions", [])  (line 209)
QuestionsOf(quiz_data) == Get(quiz_data, "questions", JsonList(<<>>))

\* Mutant of NotFiveQuestions: "and" in the place of "or".
NotFiveQuestionsAnd(qs) == qs.type # "list" /\ Len(qs.items) # ExpectedQuestions

\* not isinstance(questions, list) or len(questions) != 5  (line 210)
NotFiveQuestions(qs) == qs.type # "list" \/ Len(qs.items) # ExpectedQuestions

\* ---------------------------------------------------------------- the page
\* What one script run has put on the page so far.
BlankUI ==
    [ errors |-> {},           \* the st.error messages shown
      raw_shown |-> <<>>,      \* the text shown by st.code (lines 204, 215)
      warned |-> FALSE,        \* the warning of line 212
      ready |-> FALSE,         \* "Quiz ready" (line 219)
      presented |-> <<>>,      \* per question: its text and display options
      radios |-> {},           \* the radio keys rendered (0-based)
      submit_shown |-> FALSE,  \* the Submit Quiz button was rendered
      report |-> <<>>,         \* <<score, total>> once "Final Score" is shown
      complete |-> FALSE ]     \* "Workflow complete" (line 255)

\* raw_quiz before line 198 has assigned it.
NoReply == [received |-> FALSE, text |-> <<>>, payload |-> EmptyDict]

\* The script is not running: it ran to its end, called st.stop(), or raised.
Idle == {"finished", "stopped", "crashed"}

\* Outcomes of one call of llama (lines 13-30): the text; st.error + st.stop();
\* an exception out of requests.post / resp.json().
LlamaOutcomes == {"ok", "stop", "raise"}

\* radio holds the selections the user made (key q{k} is k); a radio the user
\* has not touched reads its first option.  Streamlit keeps the state of a
\* keyed widget only while the widget is rendered: a run that does not render
\* radio q{k} forgets its selection.
KeepRendered(r, shown) == [k \in (DOMAIN r) \cap shown |-> r[k]]

\* The script run ends as `how` with the page `page`.
EndRun(how, page) ==
    /\ pc' = how
    /\ ui' = page
    /\ radio' = KeepRendered(radio, page.radios)

\* A widget event starts a rerun of the whole script with fresh locals.
StartRerun(by) ==
    /\ pc' = "top"
    /\ trigger' = by
    /\ ui' = BlankUI
    /\ info' = EmptyDict
    /\ source' = ""
    /\ raw_quiz' = NoReply
    /\ quiz_json_str' = <<>>
    /\ questions' = JsonList(<<>>)
    /\ i' = 0
    /\ llm_calls' = <<>>

Init ==
    /\ pc = "top"
    /\ trigger = "load"
    /\ movie_input = ""
    /\ session_state = EmptyDict
    /\ radio = EmptyDict
    /\ submitted = FALSE
    /\ info = EmptyDict
    /\ source = ""
    /\ raw_quiz = NoReply
    /\ quiz_json_str = <<>>
    /\ questions = JsonList(<<>>)
    /\ i = 0
    /\ llm_calls = <<>>
    /\ ui = BlankUI

\* ------------------------------------------------------------- user events
\* The user edits the text box of line 130 ("" is blank, "m" a movie name,
\* " " a box of spaces only).
EditTitle ==
    /\ pc \in Idle
    /\ \E v \in {"", " ", "m"} : v # movie_input /\ movie_input' = v
    /\ StartRerun("text")
    /\ UNCHANGED <<session_state, radio, submitted>>

\* The user clicks "Run 4-Agent Workflow" (always on the page).
ClickRun ==
    /\ pc \in Idle
    /\ StartRerun("run")
    /\ UNCHANGED <<movie_input, session_state, radio, submitted>>

\* The user clicks "Submit Quiz", which is on the page only if the last run
\* rendered it (line 238).
ClickSubmit ==
    /\ pc \in Idle
    /\ ui.submit_shown
    /\ submitted' = TRUE
    /\ StartRerun("submit")
    /\ UNCHANGED <<movie_input, session_state, radio>>

\* The user picks another option of a radio the last run rendered.
ChooseRadio ==
    /\ pc \in Idle
    /\ \E k \in ui.radios : \E lab \in Range(labels) :
          /\ lab # labels[1]
          /\ radio' = (k :> lab) @@ radio
    /\ StartRerun("radio")
    /\ UNCHANGED <<movie_input, session_state, submitted>>

\* -------------------------------------------------------------- the script
\* str.strip() of the text box, as a truth value (line 132).
NonBlank(v) == v \notin {"", " "}

\* st.button(...): True only in the rerun its own click triggered.
ButtonPressed(name) == trigger = name

\* Line 132: if st.button("Run 4-Agent Workflow") and movie_input.strip()
TopOfScript ==
    /\ pc = "top"
    /\ IF ButtonPressed("run") /\ NonBlank(movie_input)
       THEN pc' = "agent_a" /\ UNCHANGED <<ui, radio>>
       ELSE EndRun("finished", ui)
    /\ UNCHANGED <<trigger, movie_input, session_state, submitted, info, source,
                   raw_quiz, quiz_json_str, questions, i, llm_calls>>

\* One llama call that is not wrapped in try/except: on "ok" the script goes
\* on to `next`, on "stop" it stops with the OpenRouter error on the page,
\* on "raise" the exception ends the run.
LlamaStep(prompt, out, next) ==
    /\ llm_calls' = Append(llm_calls, prompt)
    /\ CASE out = "ok" -> pc' = next /\ UNCHANGED <<ui, radio>>
         [] out = "stop" -> EndRun("stopped", [ui EXCEPT !.errors = @ \cup {"openrouter"}])
         [] out = "raise" -> EndRun("crashed", ui)

\* Lines 134-137, normalize_title (lines 100-121): the call sits in
\* try/except Exception, which catches a raised request error (the title
\* falls back to movie_input.title()) but not st.stop().
AgentA ==
    /\ pc = "agent_a"
    /\ \E out \in LlamaOutcomes :
          /\ llm_calls' = Append(llm_calls, "normalize")
          /\ IF out = "stop"
             THEN EndRun("stopped", [ui EXCEPT !.errors = @ \cup {"openrouter"}])
             ELSE pc' = "fetch" /\ UNCHANGED <<ui, radio>>
    /\ UNCHANGED <<trigger, movie_input, session_state, submitted, info, source,
                   raw_quiz, quiz_json_str, questions, i>>

\* Line 141: info, used_title, source = fetch_movie_data_with_fallback(...).
\* The call does not return when OMDB_API_KEY is missing (lines 38-40: error
\* and st.stop()) or when a request raises.
AgentBFetch ==
    /\ pc = "fetch"
    /\ \/ /\ \E exact \in ExactResponses, results \in SearchResults,
                idresp \in IdResponses :
                LET r == fetch_movie_data_with_fallback("N", exact, results, idresp)
                IN /\ info' = r.info
                   /\ source' = r.source
          /\ pc' = "branch"
          /\ UNCHANGED <<ui, radio>>
       \/ /\ EndRun("stopped", [ui EXCEPT !.errors = @ \cup {"omdb_secret"}])
          /\ UNCHANGED <<info, source>>
       \/ /\ EndRun("crashed", ui)
          /\ UNCHANGED <<info, source>>
    /\ UNCHANGED <<trigger, movie_input, session_state, submitted,
                   raw_quiz, quiz_json_str, questions, i, llm_calls>>

\* Lines 142-153: the not-found branch; otherwise on to the summary.
AgentBBranch ==
    /\ pc = "branch"
    /\ IF LookupFailed(info)
       THEN IF InvalidKeyError(Get(info, "Error", ""))
            THEN /\ EndRun("stopped", [ui EXCEPT !.errors = @ \cup {"omdb_key"}])
                 /\ UNCHANGED llm_calls
            ELSE \E out \in LlamaOutcomes :
                    /\ llm_calls' = Append(llm_calls, "alternatives")
                    /\ CASE out = "ok" ->
                              EndRun("stopped", [ui EXCEPT !.errors = @ \cup {"not_found"}])
                         [] out = "stop" ->
                              EndRun("stopped", [ui EXCEPT
                                        !.errors = @ \cup {"not_found", "openrouter"}])
                         [] out = "raise" ->
                              EndRun("crashed", [ui EXCEPT !.errors = @ \cup {"not_found"}])
       ELSE pc' = "agent_b" /\ UNCHANGED <<ui, radio, llm_calls>>
    /\ UNCHANGED <<trigger, movie_input, session_state, submitted, info, source,
                   raw_quiz, quiz_json_str, questions, i>>

\* Lines 156-179: the metadata paragraph.
AgentBSummary ==
    /\ pc = "agent_b"
    /\ \E out \in LlamaOutcomes : LlamaStep("metadata", out, "agent_c")
    /\ UNCHANGED <<trigger, movie_input, session_state, submitted, info, source,
                   raw_quiz, quiz_json_str, questions, i>>

\* Lines 181-188: the synopsis.
AgentC ==
    /\ pc = "agent_c"
    /\ \E out \in LlamaOutcomes : LlamaStep("synopsis", out, "agent_d")
    /\ UNCHANGED <<trigger, movie_input, session_state, submitted, info, source,
                   raw_quiz, quiz_json_str, questions, i>>

\* Lines 190-198: raw_quiz = llama(quiz_prompt, max_tokens=500)
AgentD ==
    /\ pc = "agent_d"
    /\ \/ \E reply \in Replies :
             /\ raw_quiz' = reply
             /\ LlamaStep("quiz", "ok", "extract")
       \/ \E out \in {"stop", "raise"} :
             /\ LlamaStep("quiz", out, "extract")
             /\ UNCHANGED raw_quiz
    /\ UNCHANGED <<trigger, movie_input, session_state, submitted, info, source,
                   quiz_json_str, questions, i>>

\* Lines 200-206: the greedy brace span, or the error and st.stop().
ExtractJson ==
    /\ pc = "extract"
    /\ IF ~HasSpan(raw_quiz.text)
       THEN /\ EndRun("stopped", [ui EXCEPT !.errors = @ \cup {"invalid_quiz_json"},
                                            !.raw_shown = <<raw_quiz.text>>])
            /\ UNCHANGED quiz_json_str
       ELSE /\ quiz_json_str' = Span(raw_quiz.text)
            /\ pc' = "parse"
            /\ UNCHANGED <<ui, radio>>
    /\ UNCHANGED <<trigger, movie_input, session_state, submitted, info, source,
                   raw_quiz, questions, i, llm_calls>>

\* Lines 207-216: json.loads, the questions list and the warning; any
\* exception shows the error and the span and stops.
ParseQuiz ==
    /\ pc = "parse"
    /\ IF ~ValidJson(quiz_json_str)
       THEN /\ EndRun("stopped", [ui EXCEPT !.errors = @ \cup {"parse_failed"},
                                            !.raw_shown = <<quiz_json_str>>])
            /\ UNCHANGED questions
       ELSE /\ questions' = QuestionsOf(raw_quiz.payload)
            /\ ui' = [ui EXCEPT !.warned = NotFiveQuestions(questions')]
            /\ pc' = "ready"
            /\ UNCHANGED radio
    /\ UNCHANGED <<trigger, movie_input, session_state, submitted, info, source,
                   raw_quiz, quiz_json_str, i, llm_calls>>

\* Lines 219-221: "Quiz ready", and user_answers created if not yet there.
QuizReady ==
    /\ pc = "ready"
    /\ ui' = [ui EXCEPT !.ready = TRUE]
    /\ session_state' = IF "user_answers" \notin DOMAIN session_state
                        THEN ("user_answers" :> EmptyDict) @@ session_state
                        ELSE session_state
    /\ i' = 0
    /\ pc' = "render"
    /\ UNCHANGED <<trigger, movie_input, radio, submitted, info, source,
                   raw_quiz, quiz_json_str, questions, llm_calls>>

\* st.radio("", options=labels, key=f"q{i}")  (line 235): the widget's stored
\* selection, the first option when it has none.
RadioValue(r, k) == Get(r, k, labels[1])

\* st.session_state.user_answers[i] = choice_label  (line 236)
RecordAnswer(answers, k, label) == (k :> label) @@ answers

\* One iteration of the loop of lines 223-236.  enumerate raises on a
\* questions value that is not iterable, q.get on an element that is no dict.
\* The padding of line 230 appends to the question's own choices list when it
\* has one.
RenderQuestion ==
    /\ pc = "render"
    /\ \/ /\ ~Iterable(questions)
          /\ EndRun("crashed", ui)
          /\ UNCHANGED <<session_state, questions, i>>
       \/ /\ Iterable(questions)
          /\ i < Len(questions.items)
          /\ ~HasGet(questions.items[i + 1])
          /\ EndRun("crashed", ui)
          /\ UNCHANGED <<session_state, questions, i>>
       \/ /\ Iterable(questions)
          /\ i < Len(questions.items)
          /\ HasGet(questions.items[i + 1])
          /\ LET q == questions.items[i + 1]
                 choices == QGet(q, "choices", <<>>)
                 choice_label == RadioValue(radio, i)
             IN /\ ui' = [ui EXCEPT
                            !.presented = Append(@, [text |-> QuestionText(q, i),
                                                     options |-> DisplayOptions(choices)]),
                            !.radios = @ \cup {i}]
                /\ UNCHANGED radio
                /\ session_state' =
                      [session_state EXCEPT
                         !["user_answers"] = RecordAnswer(@, i, choice_label)]
                /\ questions' =
                      IF "choices" \in DOMAIN q.fields
                      THEN [questions EXCEPT
                              !.items[i + 1].fields["choices"] = PadChoices(choices)]
                      ELSE questions
                /\ i' = i + 1
                /\ pc' = "render"
    /\ UNCHANGED <<trigger, movie_input, submitted, info, source,
                   raw_quiz, quiz_json_str, llm_calls>>

\* Lines 238-255, after the loop: the Submit Quiz button, the grading pass
\* when it reads True, and "Workflow complete".
SubmitQuiz ==
    /\ pc = "render"
    /\ Iterable(questions)
    /\ i >= Len(questions.items)
    /\ LET page == [ui EXCEPT !.submit_shown = TRUE, !.complete = TRUE]
       IN IF ButtonPressed("submit")
          THEN EndRun("finished",
                      [page EXCEPT !.report =
                          Grade(questions.items, session_state["user_answers"])])
          ELSE EndRun("finished", page)
    /\ UNCHANGED <<trigger, movie_input, session_state, submitted, info, source,
                   raw_quiz, quiz_json_str, questions, i, llm_calls>>

Next ==
    \/ EditTitle
    \/ ClickRun
    \/ ClickSubmit
    \/ ChooseRadio
    \/ TopOfScript
    \/ AgentA
    \/ AgentBFetch
    \/ AgentBBranch
    \/ AgentBSummary
    \/ AgentC
    \/ AgentD
    \/ ExtractJson
    \/ ParseQuiz
    \/ QuizReady
    \/ RenderQuestion
    \/ SubmitQuiz

Spec == Init /\ [][Next]_vars

\* ------------------------------------------------- the grading pass alone
\* The grading block of lines 238-253 applied to every quiz and every answers
\* mapping within the bounds: the script stands after the rendering loop, in
\* a run in which the Submit Quiz button reads True.
GradeAnswerTexts == { <<>>, <<"A">>, <<"a", " ">>, <<" ", "B">>, <<"E">> }

GradeObjs == {JsonObject(c) : c \in Opt("answer", GradeAnswerTexts)}

GradeQuizzes == UNION {[1..n -> GradeObjs] : n \in 0..MaxGradeQ}

AnswerValues == { <<"A">>, <<"B">>, <<"a">> }

AnswerMaps(n) == UNION {[D -> AnswerValues] : D \in SUBSET (0..(n - 1))}

InitGrade ==
    /\ pc = "render"
    /\ trigger = "submit"
    /\ movie_input = "m"
    /\ \E qs \in GradeQuizzes :
          /\ questions = JsonList(qs)
          /\ raw_quiz = [received |-> TRUE, text |-> <<"{", "}">>,
                        payload |-> "questions" :> JsonList(qs)]
          /\ i = Len(qs)
          /\ session_state \in {"user_answers" :> m : m \in AnswerMaps(Len(qs))}
          /\ ui = [BlankUI EXCEPT !.ready = TRUE,
                                  !.warned = NotFiveQuestions(JsonList(qs))]
    /\ radio = EmptyDict
    /\ submitted = TRUE
    /\ info = [Response |-> "True", Title |-> "T", Plot |-> "P"]
    /\ source = "exact"
    /\ quiz_json_str = <<"{", "}">>
    /\ llm_calls = <<"normalize", "metadata", "synopsis", "quiz">>

NextGrade == SubmitQuiz

SpecGrade == InitGrade /\ [][NextGrade]_vars

\* ------------------------------------------------------------------ claims
Answers == Get(session_state, "user_answers", EmptyDict)

\* C1: when the rerun triggered by a click on Submit Quiz (a button that is
\* only on the page after a quiz was displayed) has ended, a final score
\* "score / total" has been reported.
C1_SubmitReportsScore ==
    (ButtonPressed("submit") /\ pc \in Idle) => ui.report # <<>>

C9_SourceExactOrSearch ==
    source # "" => source \in {"exact", "search"}

\* The reply's object as json.loads returned it (the rendering loop pads the
\* choices lists of `questions` in place).
ParsedItems == QuestionsOf(raw_quiz.payload).items

\* json.loads has returned in this run.
Parsed == raw_quiz.received /\ pc \notin {"extract", "parse"}
            /\ quiz_json_str = <<"{", "}">>

QuestionKeys == {"question", "choices", "answer"}

\* The parsed value has no questions array, an empty one, or an element that
\* lacks a question, a choice list or an answer.
SchemaViolation(quiz_data) ==
    \/ "questions" \notin DOMAIN quiz_data
    \/ quiz_data["questions"].type # "list"
    \/ quiz_data["questions"].items = <<>>
    \/ \E k \in DOMAIN quiz_data["questions"].items :
          ~(QuestionKeys \subseteq DOMAIN quiz_data["questions"].items[k].fields)

C4_CorrectLabelAmongOptions ==
    \A k \in 1..Len(ui.presented) :
        LET opts == ui.presented[k].options
        IN /\ \E j \in DOMAIN opts : opts[j][1] = CorrectLabel(questions.items[k])
           /\ \A j1, j2 \in DOMAIN opts : opts[j1][1] = opts[j2][1] => j1 = j2

\* C5: when the reply has no brace span, or its greedy span is not valid
\* JSON, the run has stopped with the error and the raw text on the page, no
\* quiz is presented and nothing is graded; and the answers mapping changes
\* only in steps of a run that has shown "Quiz ready", so such a run leaves
\* it as it was.
C5_ParseFailureTerminal ==
    /\ [](LET text == raw_quiz.text
              opens == {k \in 1..Len(text) : text[k] = "{"}
              closes == {k \in 1..Len(text) : text[k] = "}"}
              nospan == ~(\E a \in opens, b \in closes : a < b)
              greedy == SubSeq(text,
                               CHOOSE a \in opens : \A x \in opens : a <= x,
                               CHOOSE b \in closes : \A x \in closes : x <= b)
          IN (raw_quiz.received /\ pc \notin {"extract", "parse"}
                /\ (nospan \/ greedy # <<"{", "}">>)) =>
               /\ pc = "stopped"
               /\ ui.errors = {IF nospan THEN "invalid_quiz_json" ELSE "parse_failed"}
               /\ ui.raw_shown = IF nospan THEN <<text>> ELSE <<greedy>>
               /\ ~ui.ready /\ ~ui.warned
               /\ ui.presented = <<>> /\ ui.radios = {} /\ ~ui.submit_shown
               /\ ui.report = <<>> /\ ~ui.complete)
    /\ [][~ui'.ready => session_state' = session_state]_vars

\* C5 witness: a run stopped on a span that is not valid JSON while answers
\* of an earlier quiz are stored.
C5_Witness ==
    /\ pc = "stopped"
    /\ "parse_failed" \in ui.errors
    /\ Len(raw_quiz.text) > 2
    /\ DOMAIN Answers # {}

C7_AnswersFrozenAfterSubmit ==
    [][submitted => Answers' = Answers]_vars

\* C8 as stated: after a workflow run that generated a quiz, the answers
\* mapping has entries only for question indices of that quiz.
C8_AnswersOnlyForCurrentQuiz ==
    (pc = "finished" /\ ui.ready /\ questions.type = "list") =>
        DOMAIN Answers \subseteq 0..(Len(questions.items) - 1)

Asked(prompt) == \E k \in DOMAIN llm_calls : llm_calls[k] = prompt

\* The fetch of line 141 has returned in this run.
Fetched == source # ""

\* C10 as stated: a synopsis or a quiz is asked for only after the lookup
\* produced a full found record (Response "True"); after any other outcome
\* the run takes the not-found path and ends without such a call.
C10_GenerationOnlyAfterFullRecord ==
    /\ (Asked("synopsis") \/ Asked("quiz")) => Get(info, "Response", "") = "True"
    /\ (Fetched /\ Get(info, "Response", "") # "True" /\ pc \in Idle) =>
          pc \in {"stopped", "crashed"} /\ ui.errors # {}

\* C10 as amended: a synopsis or a quiz is asked for only after the lookup
\* returned a record whose Response is not "False": a full found record
\* (source exact or search) or the partial search item (source
\* search_partial), which never takes the not-found path; when nothing was
\* found the run takes the not-found path and ends without a metadata,
\* synopsis or quiz call.
C10_GenerationUnlessNotFound ==
    /\ (Asked("metadata") \/ Asked("synopsis") \/ Asked("quiz")) =>
          /\ source \in {"exact", "search", "search_partial"}
          /\ Get(info, "Response", "") # "False"
          /\ source \in {"exact", "search"} <=> Get(info, "Response", "") = "True"
    /\ (Fetched /\ source # "none") =>
          /\ ~Asked("alternatives")
          /\ ui.errors \cap {"not_found", "omdb_key"} = {}
          /\ pc \notin {"branch", "agent_b"} => Asked("metadata")
    /\ (Fetched /\ source = "none") =>
          /\ Get(info, "Response", "") = "False"
          /\ ~(Asked("metadata") \/ Asked("synopsis") \/ Asked("quiz"))
          /\ pc # "branch" =>
                /\ Asked("alternatives")
                /\ pc \in {"stopped", "crashed"}
                /\ "not_found" \in ui.errors

\* C10 witness: the quiz was asked for with the partial search item.
C10_Witness ==
    /\ Asked("quiz")
    /\ source = "search_partial"
    /\ "Response" \notin DOMAIN info

====
